---- MODULE Spec2Model ----
(***************************************************************************)
(* A model of ubirch/example-micropython:                                  *)
(*   - src/src/lib/modem.py            (_send_at_cmd, get_imsi)            *)
(*   - src/src/lib/error_handling.py   (ErrorHandler, FileLogger)          *)
(*   - src/src/main.py                 (Main.__init__, Main.loop, logging) *)
(*   - src/src/lib/ubirch/ubirch_data_client.py (UbirchDataClient.send)    *)
(*                                                                         *)
(* Three entry points are modelled, each with its own specification:       *)
(*   SpecModem   a caller running get_imsi / _send_at_cmd against a modem  *)
(*   SpecLogger  a caller driving ErrorHandler / FileLogger                *)
(*   Spec        main.py: Main() followed by Main.loop()                   *)
(* Strings that the code measures or splits are sequences of characters.   *)
(***************************************************************************)
EXTENDS Integers, Sequences, FiniteSets, TLC

VARIABLES
    \* ---- modem.py -----------------------------------------------------
    at_pc,        \* position of the caller inside get_imsi/_send_at_cmd
    at_sent,      \* how many times lte.send_at_cmd(cmd) has been called
    at_raw,       \* the raw response of the last lte.send_at_cmd call
    at_result,    \* the local `result` of _send_at_cmd
    at_okseen,    \* an attempt whose last line is 'OK' has happened
    at_late,      \* an attempt was made after at_okseen was set
    imsi_ret,     \* what get_imsi returned (NoValue: nothing returned)
    \* ---- error_handling.py ---------------------------------------------
    eh_pc,        \* "boot", "ready", "reset" (machine.reset() ran), "raised"
    eh,           \* the constructed object: ErrorHandler / FileLogger fields
    fileSize,     \* the size in bytes of each log file on flash / SD
    eh_steps,     \* the steps the last ErrorHandler.log call performed, in order
    eh_call,      \* the arguments and the log-write outcome of that call
    w_hist,       \* history of the last performed log write
    eh_resets,    \* machine.reset() calls made by ErrorHandler.log since boot
    eh_budget,    \* log calls and reboots the bounded model still allows
    \* ---- main.py and ubirch_data_client.py ------------------------------
    pc,            \* position of main.py
    cfg,           \* self.cfg, the loaded configuration
    file_position, \* the module-level global `file_position` of main.py
    init_position, \* the LOCAL `file_position` of Main.__init__
    cycle,         \* iterations of `while True` started so far
    data,          \* the reading captured by prepare_data() in this cycle
    client,        \* the locals of UbirchDataClient.send: message, hash, r
    posts,         \* the HTTP POSTs issued in the current cycle, in order
    fail,          \* what failed first in this run ("none": nothing)
    exc,           \* where an exception nobody catches was raised
    resets,        \* machine.reset() calls made
    sleeps,        \* interval sleeps of the loop reached so far
    slept,         \* seconds slept at the end of the cycle just finished
    elapsed,       \* passed_time of the cycle just finished (line 211)
    sleep_called,  \* the cycle just finished called time.sleep at line 215
    calls,         \* what main.py called since the cycle (or the run) began
    tx_failed,     \* this cycle's transmission raised
    prev_failed,   \* the previous cycle's transmission raised
    now            \* time.time(), whole seconds since boot

modemVars == <<at_pc, at_sent, at_raw, at_result, at_okseen, at_late, imsi_ret>>
loggerVars == <<eh_pc, eh, fileSize, eh_steps, eh_call, w_hist, eh_resets, eh_budget>>
mainVars == <<pc, cfg, file_position, init_position, cycle, data, client, posts,
              fail, exc, resets, sleeps, slept, elapsed, sleep_called, calls,
              tx_failed, prev_failed, now>>
vars == <<modemVars, loggerVars, mainVars>>

NoValue == <<"<none>">>

(***************************************************************************)
(* Bounds of the modem model.                                              *)
(***************************************************************************)
\* A raw modem response is made of at most MaxSegs '\r\n'-separated pieces.
MaxSegs == 2

(***************************************************************************)
(* modem.py                                                                *)
(***************************************************************************)
CR == "\r"
LF == "\n"
CRLF == <<CR, LF>>

\* Python's str.strip() removes leading and trailing whitespace.
IsSpace(c) == c \in {" ", "\t", CR, LF}

RECURSIVE LStrip(_)
LStrip(s) ==
    IF s = <<>> THEN <<>>
    ELSE IF IsSpace(Head(s)) THEN LStrip(Tail(s)) ELSE s

RECURSIVE RStrip(_)
RStrip(s) ==
    IF s = <<>> THEN <<>>
    ELSE IF IsSpace(s[Len(s)]) THEN RStrip(SubSeq(s, 1, Len(s) - 1)) ELSE s

Strip(s) == RStrip(LStrip(s))

\* raw.split('\r\n'): cut at every occurrence of CR LF, left to right.
RECURSIVE SplitFrom(_, _)
SplitFrom(s, i) ==
    IF i + 1 > Len(s) THEN <<s>>
    ELSE IF s[i] = CR /\ s[i + 1] = LF
         THEN <<SubSeq(s, 1, i - 1)>> \o SplitFrom(SubSeq(s, i + 2, Len(s)), 1)
         ELSE SplitFrom(s, i + 1)

SplitCRLF(s) == SplitFrom(s, 1)

RECURSIVE KeepNonBlank(_)
KeepNonBlank(ls) ==
    IF ls = <<>> THEN <<>>
    ELSE IF Len(Strip(Head(ls))) > 0
         THEN <<Head(ls)>> \o KeepNonBlank(Tail(ls))
         ELSE KeepNonBlank(Tail(ls))

\* modem.py:9  [k for k in raw.split('\r\n') if len(k.strip()) > 0]
ResponseLines(raw) == KeepNonBlank(SplitCRLF(raw))

\* The literal the code compares with.
OK == <<"O", "K">>
IMSI_LEN == 15
MAX_ATTEMPTS == 3

\* The pieces the modelled modem answers with.
ERRORLINE == <<"E", "R", "R", "O", "R">>
Imsi15 == <<"9", "0", "1", "2", "8", "8", "0", "0", "1", "2", "3", "4", "5", "6", "7">>
Short4 == <<"1", "2", "3", "4">>
Segments == {<<>>, <<" ">>, OK, ERRORLINE, Imsi15, Short4}

RECURSIVE JoinCRLF(_)
JoinCRLF(segs) ==
    IF Len(segs) = 1 THEN segs[1]
    ELSE segs[1] \o CRLF \o JoinCRLF(Tail(segs))

\* Every raw response of 1..MaxSegs pieces (the empty string is one empty piece).
RawResponses ==
    UNION { { JoinCRLF(segs) : segs \in [1..n -> Segments] } : n \in 1..MaxSegs }

EndsOK(result) == result[Len(result)] = OK

\* result[-1] raises IndexError on an empty list.
IndexRaises(result) == result = <<>>

\* get_imsi calls _send_at_cmd: result = [] and the loop is entered.
GetImsiCall ==
    /\ at_pc = "idle"
    /\ at_pc' = "loop"
    /\ at_result' = <<>>
    /\ UNCHANGED <<at_sent, at_raw, at_okseen, at_late, imsi_ret>>
    /\ UNCHANGED <<loggerVars, mainVars>>

\* One iteration of `for _ in range(3)`: send, split, test result[-1].
SendAtCmdAttempt ==
    /\ at_pc = "loop"
    /\ at_sent < MAX_ATTEMPTS
    /\ \E raw \in RawResponses :
        LET result == ResponseLines(raw) IN
        /\ at_raw' = raw
        /\ at_result' = result
        /\ at_sent' = at_sent + 1
        /\ at_late' = (at_late \/ at_okseen)
        /\ IF IndexRaises(result)
           THEN /\ at_pc' = "at_raised"
                /\ at_okseen' = at_okseen
           ELSE IF EndsOK(result)
           THEN /\ at_pc' = "at_returned"
                /\ at_okseen' = TRUE
           ELSE /\ at_pc' = IF at_sent + 1 = MAX_ATTEMPTS THEN "at_returned" ELSE "loop"
                /\ at_okseen' = at_okseen
    /\ UNCHANGED imsi_ret
    /\ UNCHANGED <<loggerVars, mainVars>>

\* A variant of ImsiAccepted that does not look at the length.
ImsiAccepted_AnyLength(result) == EndsOK(result)

\* get_imsi after _send_at_cmd returned: the test of line 30.
ImsiAccepted(result) == EndsOK(result) /\ Len(result[1]) = IMSI_LEN

GetImsiFinish ==
    /\ at_pc = "at_returned"
    /\ IF ImsiAccepted(at_result)
       THEN /\ at_pc' = "imsi_returned"
            /\ imsi_ret' = at_result[1]
       ELSE /\ at_pc' = "imsi_raised"
            /\ imsi_ret' = NoValue
    /\ UNCHANGED <<at_sent, at_raw, at_result, at_okseen, at_late>>
    /\ UNCHANGED <<loggerVars, mainVars>>

\* The IndexError of _send_at_cmd is not caught by get_imsi.
GetImsiPropagate ==
    /\ at_pc = "at_raised"
    /\ at_pc' = "imsi_raised"
    /\ UNCHANGED <<at_sent, at_raw, at_result, at_okseen, at_late, imsi_ret>>
    /\ UNCHANGED <<loggerVars, mainVars>>

ModemNext ==
    \/ GetImsiCall
    \/ SendAtCmdAttempt
    \/ GetImsiFinish
    \/ GetImsiPropagate

(***************************************************************************)
(* error_handling.py                                                       *)
(***************************************************************************)
\* Bounds of the logger model.
\* Log calls made over the whole run (all boots).
MaxLogs == 3
\* Reboots after a reset or an uncaught exception.
MaxBoots == 1
\* Length of the logged message, or of the traceback print_exception writes.
MaxErrLen == 2
\* An explicit cap a caller passes to FileLogger(max_file_size_bytes=...).
SmallCap == 50

\* FileLogger.__init__'s default for max_file_size_bytes.
MAX_FILE_SIZE_DEFAULT == 20000
\* len('(YYYY.MM.DD HH:MM:SS) '), the prefix of every entry.
TS_LEN == 22

FlashLog == "log.txt"
SdLog == "/sd/log.txt"
Files == {FlashLog, SdLog}

\* Python compares and prints a bool as the integer 0 or 1.
BoolInt(b) == IF b THEN 1 ELSE 0

Max(a, b) == IF a >= b THEN a ELSE b

Errors == [kind : {"str", "exc"}, len : 1..MaxErrLen]

\* Bytes one entry adds: the prefix, then error + "\n" or the traceback.
EntryLen(error) ==
    TS_LEN + (IF error.kind = "str" THEN error.len + 1 ELSE error.len)

MaxEntryLen == TS_LEN + MaxErrLen + 1

\* Sizes the log files may have when the device is first powered.
InitSizes == {0, SmallCap, SmallCap + 1, MAX_FILE_SIZE_DEFAULT, MAX_FILE_SIZE_DEFAULT + 1}

NoLogger == [MAX_FILE_SIZE |-> 0, logfile |-> "", file_position |-> 0]
NoObject == [via |-> "none", enabled |-> FALSE, fl |-> NoLogger]
NoCall == [reset |-> FALSE, io |-> "none"]
NoWrite == [wrote |-> FALSE, prevEnd |-> 0, at |-> 0, len |-> 0, lastEnd |-> 0, startSize |-> 0]

\* FileLogger.__init__: open(..., 'a') and f.tell() give the current size
\* (a missing file is created empty).
FileLoggerNew(max_file_size_bytes, sd_card_mounted, sizes) ==
    LET name == IF sd_card_mounted THEN SdLog ELSE FlashLog IN
    [MAX_FILE_SIZE |-> max_file_size_bytes,
     logfile |-> name,
     file_position |-> sizes[name]]

\* ErrorHandler.__init__: FileLogger(sd_card) binds sd_card to the FIRST
\* positional parameter, max_file_size_bytes; sd_card_mounted keeps its default.
ErrorHandlerLogger(sd_card, sizes) == FileLoggerNew(BoolInt(sd_card), FALSE, sizes)

\* A variant of WriteOffset that wraps one byte early (>= for >).
WriteOffset_WrapsAtCap(fl) ==
    IF fl.file_position >= fl.MAX_FILE_SIZE THEN 0 ELSE fl.file_position

\* FileLogger.log, lines 69-72: where the entry is written.
\* (The file is opened in mode 'a'; on the device's FAT file system the seek
\* is honoured, which is what the code's comment relies on.)
WriteOffset(fl) ==
    IF fl.file_position > fl.MAX_FILE_SIZE THEN 0 ELSE fl.file_position

\* I/O outcomes of one FileLogger.log call.
IoOutcomes == {"ok", "open_fails", "write_fails"}

\* FileLogger.log: the logger's fields after the call.
FileLoggerLog(fl, n, io) ==
    CASE io = "open_fails" -> fl
      [] io = "write_fails" -> [fl EXCEPT !.file_position = WriteOffset(fl)]
      [] OTHER -> [fl EXCEPT !.file_position = WriteOffset(fl) + n]

\* The file's size after the call.
SizeAfterLog(size, fl, n, io) ==
    IF io = "ok" THEN Max(size, WriteOffset(fl) + n) ELSE size

\* History of the write just performed (unchanged when nothing was written).
HistAfterLog(h, fl, n, io) ==
    IF io = "ok"
    THEN [h EXCEPT !.wrote = TRUE, !.prevEnd = h.lastEnd, !.at = WriteOffset(fl),
                   !.len = n, !.lastEnd = WriteOffset(fl) + n]
    ELSE h

\* handler = ErrorHandler(file_logging_enabled, sd_card)
NewErrorHandler ==
    /\ eh_pc = "boot"
    /\ \E file_logging_enabled \in BOOLEAN, sd_card \in BOOLEAN :
        LET fl == IF file_logging_enabled
                  THEN ErrorHandlerLogger(sd_card, fileSize)
                  ELSE NoLogger IN
        /\ eh' = [via |-> "ErrorHandler", enabled |-> file_logging_enabled, fl |-> fl]
        /\ w_hist' = [NoWrite EXCEPT !.lastEnd = fl.file_position,
                                     !.startSize = fl.file_position]
    /\ eh_pc' = "ready"
    /\ eh_steps' = <<>>
    /\ eh_call' = NoCall
    /\ UNCHANGED <<fileSize, eh_resets, eh_budget>>
    /\ UNCHANGED <<modemVars, mainVars>>

\* logger = FileLogger() or FileLogger(cap, sd_card_mounted)
NewFileLogger ==
    /\ eh_pc = "boot"
    /\ \E cap \in {MAX_FILE_SIZE_DEFAULT, SmallCap}, sd_card_mounted \in BOOLEAN :
        LET fl == FileLoggerNew(cap, sd_card_mounted, fileSize) IN
        /\ eh' = [via |-> "FileLogger", enabled |-> TRUE, fl |-> fl]
        /\ w_hist' = [NoWrite EXCEPT !.lastEnd = fl.file_position,
                                     !.startSize = fl.file_position]
    /\ eh_pc' = "ready"
    /\ eh_steps' = <<>>
    /\ eh_call' = NoCall
    /\ UNCHANGED <<fileSize, eh_resets, eh_budget>>
    /\ UNCHANGED <<modemVars, mainVars>>

\* The steps of ErrorHandler.log(error, led_color, reset), lines 34-43.
ErrorHandlerSteps(enabled, io, reset) ==
    <<"set_led", "print">>
    \o (IF enabled /\ io = "ok" THEN <<"log">> ELSE <<>>)
    \o (IF enabled /\ io # "ok"
        THEN <<"log_raised">>
        ELSE <<"idle", "sleep3">>
             \o (IF reset THEN <<"print_reset", "sleep1", "reset">> ELSE <<>>))

\* Where ErrorHandler.log leaves the program.
ErrorHandlerOutcome(enabled, io, reset) ==
    IF enabled /\ io # "ok" THEN "raised"
    ELSE IF reset THEN "reset" ELSE "ready"

\* handler.log(error, led_color, reset)
ErrorHandlerLog ==
    /\ eh_pc = "ready"
    /\ eh.via = "ErrorHandler"
    /\ eh_budget.logs > 0
    /\ \E error \in Errors, reset \in BOOLEAN, io \in IoOutcomes :
        LET n == EntryLen(error)
            out == ErrorHandlerOutcome(eh.enabled, io, reset) IN
        /\ (~eh.enabled) => io = "ok"
        /\ eh_steps' = ErrorHandlerSteps(eh.enabled, io, reset)
        /\ eh_call' = [reset |-> reset, io |-> IF eh.enabled THEN io ELSE "none"]
        /\ eh_pc' = out
        /\ eh_resets' = eh_resets + (IF out = "reset" THEN 1 ELSE 0)
        /\ IF eh.enabled
           THEN /\ eh' = [eh EXCEPT !.fl = FileLoggerLog(eh.fl, n, io)]
                /\ fileSize' = [fileSize EXCEPT ![eh.fl.logfile] =
                                    SizeAfterLog(fileSize[eh.fl.logfile], eh.fl, n, io)]
                /\ w_hist' = HistAfterLog(w_hist, eh.fl, n, io)
           ELSE UNCHANGED <<eh, fileSize, w_hist>>
    /\ eh_budget' = [eh_budget EXCEPT !.logs = @ - 1]
    /\ UNCHANGED <<modemVars, mainVars>>

\* logger.log(error) on a FileLogger the caller constructed itself
FileLoggerLogCall ==
    /\ eh_pc = "ready"
    /\ eh.via = "FileLogger"
    /\ eh_budget.logs > 0
    /\ \E error \in Errors, io \in IoOutcomes :
        LET n == EntryLen(error) IN
        /\ eh' = [eh EXCEPT !.fl = FileLoggerLog(eh.fl, n, io)]
        /\ fileSize' = [fileSize EXCEPT ![eh.fl.logfile] =
                            SizeAfterLog(fileSize[eh.fl.logfile], eh.fl, n, io)]
        /\ w_hist' = HistAfterLog(w_hist, eh.fl, n, io)
        /\ eh_pc' = IF io = "ok" THEN "ready" ELSE "raised"
        /\ eh_call' = [reset |-> FALSE, io |-> io]
    /\ eh_steps' = <<>>
    /\ eh_budget' = [eh_budget EXCEPT !.logs = @ - 1]
    /\ UNCHANGED eh_resets
    /\ UNCHANGED <<modemVars, mainVars>>

\* The device starts again (after machine.reset(), or a watchdog / power
\* cycle after an uncaught exception): memory is lost, the files are kept.
Reboot ==
    /\ eh_pc \in {"reset", "raised"}
    /\ eh_budget.boots > 0
    /\ eh_pc' = "boot"
    /\ eh' = NoObject
    /\ eh_steps' = <<>>
    /\ eh_call' = NoCall
    /\ w_hist' = NoWrite
    /\ eh_resets' = 0
    /\ eh_budget' = [eh_budget EXCEPT !.boots = @ - 1]
    /\ UNCHANGED fileSize
    /\ UNCHANGED <<modemVars, mainVars>>

LoggerNext ==
    \/ NewErrorHandler
    \/ NewFileLogger
    \/ ErrorHandlerLog
    \/ FileLoggerLogCall
    \/ Reboot

(***************************************************************************)
(* main.py and ubirch_data_client.py                                       *)
(***************************************************************************)
\* Bounds of the model of main.py.
\* Iterations of the endless measurement loop that are followed.
MaxCycles == 2
\* The configured measurement interval, 1..MaxInterval seconds.
MaxInterval == 3
\* Seconds a cycle may take.
MaxPassed == 4
\* Sensor values 1..MaxReading.
MaxReading == 1
\* Length of the traceback sys.print_exception writes, 1..MaxTraceLen.
MaxTraceLen == 1

\* main.py:23
MAX_FILE_SIZE == 20000
\* main.py:209, time.sleep(3) in the loop's exception handler
ERROR_SLEEP == 3
\* The lengths of the messages main.py reports (lines 103, 105, 111, 187, 196).
LEN_ERR_CONNECT == 56
LEN_ERR_SETTIME == 46
LEN_ERR_ATTACH == 55
LEN_LOST_WIFI == 48
LEN_LOST_NBIOT == 50
\* ubirch_data_client.py:45
MSG_TYPE == 1
\* ubirch_data_client.py:138
HTTP_OK == 200
\* A status of a request the backend refuses.
HTTP_FAIL == 500

Connections == {"wifi", "nbiot", "none"}
BoardTypes == {"pysense", "pytrack", "other"}
Encodings == {"msgpack", "json"}

\* What get_config() may return.
Configs ==
    [logfile : BOOLEAN, connection : Connections, type : BoardTypes,
     interval : 1..MaxInterval, encoding : Encodings]

NoConfig ==
    [logfile |-> FALSE, connection |-> "none", type |-> "other",
     interval |-> 1, encoding |-> "msgpack"]

Undefined == [defined |-> FALSE, value |-> 0]
Defined(v) == [defined |-> TRUE, value |-> v]

NoData == [cycle |-> 0, V |-> 0]
NoMessage == [uuid |-> "", msg_type |-> 0, timestamp |-> 0, data |-> NoData]
NoHash == <<"nohash">>
NoClient == [msg |-> NoMessage, hash |-> NoHash, wire |-> <<>>, r |-> 0, posted |-> 0]

\* The outcomes of requests.post: a response with a status, or OSError.
PostOutcomes == {HTTP_OK, HTTP_FAIL, -1}
Raised(outcome) == outcome = -1

\* A variant of PrepareData that hands out the previous cycle's capture again.
PrepareData_Stale(c, v) == [cycle |-> IF c > 1 THEN c - 1 ELSE c, V |-> v]

\* main.py:179  data = self.prepare_data(): a reading captured in this cycle.
PrepareData(c, v) == [cycle |-> c, V |-> v]

\* pack_message_*: the message built from the reading and the current time.
MessageOf(reading, ts) ==
    [uuid |-> "uuid", msg_type |-> MSG_TYPE, timestamp |-> ts, data |-> reading]

\* ubirch_data_client.py:59, the last element of the msgpack array before the
\* hash is known.
PLACEHOLDER == 0
\* The largest integer msgpack writes as a single byte (positive fixint).
FIXINT_MAX == 127

\* The elements of the array of pack_message_msgpack, by their Python type.
PyBytes(v) == [t |-> "bytes", v |-> v]
PyInt(v) == [t |-> "int", v |-> v]
PyMap(v) == [t |-> "map", v |-> v]

\* msgpack.packb of one element, as the sequence of its bytes: an integer up
\* to 127 is one byte, a larger one a type byte and its value; a bytes value
\* is a type byte, a length byte and the content; the data map is kept whole.
PackItem(x) ==
    CASE x.t = "int" -> IF x.v \in 0..FIXINT_MAX THEN <<x.v>> ELSE <<"uint", x.v>>
      [] x.t = "bytes" -> <<"bin8", <<"len", x.v>>, x.v>>
      [] x.t = "map" -> <<x>>

RECURSIVE PackItems(_)
PackItems(list) ==
    IF list = <<>> THEN <<>> ELSE PackItem(Head(list)) \o PackItems(Tail(list))

\* msgpack.packb(msg) of a list: the array header, then the elements.
PackB(list) == <<<<"fixarray", Len(list)>>>> \o PackItems(list)

\* A variant of DropLastByte that keeps the whole serialization.
DropLastByte_KeepsAll(serialized) == serialized

\* ubirch_data_client.py:63, the slice [0:-1]
DropLastByte(serialized) == SubSeq(serialized, 1, Len(serialized) - 1)

\* lines 55-60: msg = [uuid.bytes, msg_type, timestamp, data, <last>]
MsgpackList(msg, last) ==
    <<PyBytes(msg.uuid), PyInt(msg.msg_type), PyInt(msg.timestamp), PyMap(msg.data), last>>

\* json.dumps(msg_map): one text per content of the map.
JsonDumps(msg_map) == <<"json", msg_map>>

\* binascii.b2a_base64(message_hash).decode('utf-8').rstrip('\n')
B64(hash) == <<"b64", hash>>

\* lines 63 and 86: what the hash is computed over.
HashedContent(msg, encoding) ==
    IF encoding = "msgpack"
    THEN DropLastByte(PackB(MsgpackList(msg, PyInt(PLACEHOLDER))))
    ELSE JsonDumps(msg)

\* self._ubirch.hash(serialized): a digest, one per serialized content.
Digest(serialized) == <<"hash", serialized>>

\* lines 64 and 86: message_hash
HashOf(msg, encoding) == Digest(HashedContent(msg, encoding))

\* lines 89-91: msg_map.update({'hash': ...})
WithHash(msg, hash) ==
    [k \in DOMAIN msg \cup {"hash"} |-> IF k = "hash" THEN B64(hash) ELSE msg[k]]

\* lines 67-68 and 89-94: the body handed to requests.post.
WireOf(msg, hash, encoding) ==
    IF encoding = "msgpack"
    THEN PackB(MsgpackList(msg, PyBytes(hash)))
    ELSE JsonDumps(WithHash(msg, hash))

\* UbirchDataClient.send, lines 133-136: which sender is used.
UsesMsgpack(config) == config.encoding = "msgpack"

\* A variant of AfterFirstPost that skips the second POST once the first
\* one was answered with 200.
AfterFirstPost_SkipOn200(config, status) ==
    IF UsesMsgpack(config) \/ status = HTTP_OK THEN "status" ELSE "post2"

\* send_json posts twice, send_msgpack once: where the call stands after the
\* first requests.post returned a response.
AfterFirstPost(config, status) ==
    IF UsesMsgpack(config) THEN "status" ELSE "post2"

\* A variant of DataAccepted that takes any response for a success.
DataAccepted_AnyResponse(r) == ~Raised(r)

\* UbirchDataClient.send, line 138
DataAccepted(r) == r = HTTP_OK

\* log_to_file(error), lines 26-45, for an entry of n bytes after the
\* timestamp. Line 31 reads the global `file_position`: NameError when
\* nothing has assigned it. Otherwise the entry is written at the recorded
\* position (at 0 once that exceeds MAX_FILE_SIZE) and the position recorded.
LogToFile(g, size, n) ==
    IF ~g.defined
    THEN [raised |-> TRUE, g |-> g, size |-> size]
    ELSE LET at == IF g.value > MAX_FILE_SIZE THEN 0 ELSE g.value IN
         [raised |-> FALSE,
          g |-> Defined(at + TS_LEN + n),
          size |-> Max(size, at + TS_LEN + n)]

\* `if logfile: log_to_file(...)`
LogIfEnabled(logfile, g, size, n) ==
    IF logfile THEN LogToFile(g, size, n)
    ELSE [raised |-> FALSE, g |-> g, size |-> size]

\* report_and_reset(message, logfile), lines 48-54: LED, print, the optional
\* log write, sleep(3), machine.reset(). "crashed": log_to_file raised and
\* machine.reset() was not reached.
ReportAndReset(logfile, g, size, n) ==
    LET l == LogIfEnabled(logfile, g, size, n) IN
    [pc |-> IF l.raised THEN "crashed" ELSE "reset", g |-> l.g, size |-> l.size]

\* The loop's exception handler, lines 205-209: LED, print_exception, the
\* optional log write, sleep(3); then the loop goes on at line 211.
HandleSendError(logfile, g, size, n) ==
    LET l == LogIfEnabled(logfile, g, size, n) IN
    [pc |-> IF l.raised THEN "crashed" ELSE "cycle_end", g |-> l.g, size |-> l.size]

\* What report_and_reset does, in order (lines 49-54).
ReportSteps(logfile, raised) ==
    <<"led", "print">>
        \o (IF logfile /\ ~raised THEN <<"log">> ELSE <<>>)
        \o (IF raised THEN <<"log_raised">> ELSE <<"sleep3", "reset">>)

\* What the loop's exception handler does, in order (lines 206-209).
HandlerSteps(logfile, raised) ==
    <<"led", "print">>
        \o (IF logfile /\ ~raised THEN <<"log">> ELSE <<>>)
        \o (IF raised THEN <<"log_raised">> ELSE <<"sleep3">>)

\* A variant of ConnectFailed that never looks at what connect returned.
ConnectFailed_Ignored(returned) == FALSE

\* lines 188 and 197: `if not wifi.connect(...)` / `if not nb_iot.connect(...)`
ConnectFailed(returned) == ~returned

\* lines 183 and 192: the media whose liveness the loop probes.
Probed(config) == config.connection \in {"wifi", "nbiot"}

\* A variant of SleepSeconds without the guard of line 213.
SleepSeconds_Unguarded(interval, passed_time) == interval - passed_time

\* Main.loop, line 213: whether time.sleep is called at all.
SleepRequested(interval, passed_time) == interval > passed_time

\* Main.loop, lines 212-215: the seconds slept at the end of a cycle.
SleepSeconds(interval, passed_time) ==
    IF interval > passed_time THEN interval - passed_time ELSE 0

loggerRest == <<eh_pc, eh, eh_steps, eh_call, w_hist, eh_resets, eh_budget>>

\* The effect of a report_and_reset call on the program.
FatalReport(what, n) ==
    LET r == ReportAndReset(cfg.logfile, file_position, fileSize[FlashLog], n) IN
    /\ pc' = r.pc
    /\ fail' = what
    /\ exc' = IF r.pc = "crashed" THEN "log_to_file" ELSE exc
    /\ resets' = resets + (IF r.pc = "reset" THEN 1 ELSE 0)
    /\ file_position' = r.g
    /\ fileSize' = [fileSize EXCEPT ![FlashLog] = r.size]
    /\ calls' = Append(calls, what) \o ReportSteps(cfg.logfile, r.pc = "crashed")

\* A start-up step that returns a bool: on False, report_and_reset.
StartupStep(ok, next, what, n) ==
    IF ok
    THEN /\ pc' = next
         /\ calls' = Append(calls, what)
         /\ UNCHANGED <<fail, exc, resets, file_position, fileSize>>
    ELSE FatalReport(what, n)

\* Main.__init__, lines 79-85: uuid, then get_config().
MainGetConfig ==
    /\ pc = "boot"
    /\ \/ \E c \in Configs :
            /\ cfg' = c
            /\ pc' = "logfile"
            /\ UNCHANGED <<fail, exc>>
       \/ /\ pc' = "crashed"
          /\ fail' = "config"
          /\ exc' = "get_config"
          /\ UNCHANGED cfg
    /\ UNCHANGED <<file_position, init_position, cycle, data, client, posts,
                   resets, sleeps, slept, elapsed, sleep_called,
                   tx_failed, prev_failed, now>>
    /\ UNCHANGED calls
    /\ UNCHANGED <<modemVars, loggerVars>>

\* Main.__init__, lines 90-95: the size of the log file goes to a LOCAL
\* variable named file_position; the global of log_to_file stays unassigned.
MainOpenLogfile ==
    /\ pc = "logfile"
    /\ init_position' = IF cfg.logfile THEN Defined(fileSize[FlashLog]) ELSE Undefined
    /\ pc' = "connect"
    /\ UNCHANGED <<cfg, file_position, cycle, data, client, posts, fail, exc,
                   resets, sleeps, slept, elapsed, sleep_called,
                   tx_failed, prev_failed, now>>
    /\ UNCHANGED calls
    /\ UNCHANGED <<modemVars, loggerVars>>

\* lines 98-103: wifi.connect(self.wlan, networks)
MainWifiConnect ==
    /\ pc = "connect"
    /\ cfg.connection = "wifi"
    /\ \E ok \in BOOLEAN : StartupStep(ok, "settime", "connect", LEN_ERR_CONNECT + 1)
    /\ UNCHANGED <<cfg, init_position, cycle, data, client, posts,
                   sleeps, slept, elapsed, sleep_called,
                   tx_failed, prev_failed, now>>
    /\ UNCHANGED <<modemVars, loggerRest>>

\* lines 106-111: nb_iot.attach(self.lte, apn)
MainNbiotAttach ==
    /\ pc = "connect"
    /\ cfg.connection = "nbiot"
    /\ \E ok \in BOOLEAN : StartupStep(ok, "nb_connect", "attach", LEN_ERR_ATTACH + 1)
    /\ UNCHANGED <<cfg, init_position, cycle, data, client, posts,
                   sleeps, slept, elapsed, sleep_called,
                   tx_failed, prev_failed, now>>
    /\ UNCHANGED <<modemVars, loggerRest>>

\* lines 112-113: nb_iot.connect(self.lte)
MainNbiotConnect ==
    /\ pc = "nb_connect"
    /\ \E ok \in BOOLEAN : StartupStep(ok, "settime", "connect", LEN_ERR_CONNECT + 1)
    /\ UNCHANGED <<cfg, init_position, cycle, data, client, posts,
                   sleeps, slept, elapsed, sleep_called,
                   tx_failed, prev_failed, now>>
    /\ UNCHANGED <<modemVars, loggerRest>>

\* lines 104-105 and 114-115: set_time()
MainSetTime ==
    /\ pc = "settime"
    /\ \E ok \in BOOLEAN : StartupStep(ok, "sensor", "settime", LEN_ERR_SETTIME + 1)
    /\ UNCHANGED <<cfg, init_position, cycle, data, client, posts,
                   sleeps, slept, elapsed, sleep_called,
                   tx_failed, prev_failed, now>>
    /\ UNCHANGED <<modemVars, loggerRest>>

\* lines 98-115 with a connection that is neither "wifi" nor "nbiot".
MainNoNetwork ==
    /\ pc = "connect"
    /\ cfg.connection \notin {"wifi", "nbiot"}
    /\ pc' = "sensor"
    /\ UNCHANGED <<cfg, file_position, init_position, cycle, data, client, posts,
                   fail, exc, resets, sleeps, slept, elapsed, sleep_called,
                   tx_failed, prev_failed, now>>
    /\ UNCHANGED calls
    /\ UNCHANGED <<modemVars, loggerVars>>

\* lines 117-123: the expansion board
MainInitSensor ==
    /\ pc = "sensor"
    /\ IF cfg.type \in {"pysense", "pytrack"}
       THEN /\ pc' = "ubirch"
            /\ UNCHANGED <<fail, exc>>
       ELSE /\ pc' = "crashed"
            /\ fail' = "sensor"
            /\ exc' = "board_type"
    /\ UNCHANGED <<cfg, file_position, init_position, cycle, data, client, posts,
                   resets, sleeps, slept, elapsed, sleep_called,
                   tx_failed, prev_failed, now>>
    /\ UNCHANGED calls
    /\ UNCHANGED <<modemVars, loggerVars>>

\* line 126: UbirchClient(self.uuid, self.cfg), which creates the key pair and
\* registers it; it raises when that fails.
MainInitUbirch ==
    /\ pc = "ubirch"
    /\ \/ /\ pc' = "loop"
          /\ UNCHANGED <<fail, exc>>
       \/ /\ pc' = "crashed"
          /\ fail' = "ubirch_init"
          /\ exc' = "ubirch_init"
    /\ UNCHANGED <<cfg, file_position, init_position, cycle, data, client, posts,
                   resets, sleeps, slept, elapsed, sleep_called,
                   tx_failed, prev_failed, now>>
    /\ calls' = Append(calls, "register")
    /\ UNCHANGED <<modemVars, loggerVars>>

\* Main.loop, lines 174-180: a new cycle starts and captures its reading.
LoopMeasure ==
    /\ pc = "loop"
    /\ cycle < MaxCycles
    /\ cycle' = cycle + 1
    /\ \E v \in 1..MaxReading : data' = PrepareData(cycle + 1, v)
    /\ client' = NoClient
    /\ posts' = <<>>
    /\ prev_failed' = tx_failed
    /\ tx_failed' = FALSE
    /\ pc' = "check_conn"
    /\ calls' = <<>>
    /\ slept' = 0
    /\ elapsed' = 0
    /\ sleep_called' = FALSE
    /\ UNCHANGED <<cfg, file_position, init_position, fail, exc, resets, sleeps, now>>
    /\ UNCHANGED <<modemVars, loggerVars>>

\* Main.loop, lines 182-200: the liveness probe and the reconnect.
LoopCheckConnection ==
    /\ pc = "check_conn"
    /\ \E connected \in BOOLEAN, reconnected \in BOOLEAN :
        LET n == IF cfg.connection = "wifi" THEN LEN_LOST_WIFI + 1 ELSE LEN_LOST_NBIOT + 1
            l == LogIfEnabled(cfg.logfile, file_position, fileSize[FlashLog], n)
            r == ReportAndReset(cfg.logfile, l.g, l.size, LEN_ERR_CONNECT + 1)
            lost == <<"probe_down", "led", "print">>
                        \o (IF cfg.logfile /\ ~l.raised THEN <<"log">> ELSE <<>>) IN
        IF ~Probed(cfg)
        THEN /\ pc' = "send"
             /\ UNCHANGED <<fail, exc, resets, file_position, fileSize, calls>>
        ELSE IF connected
        THEN /\ pc' = "send"
             /\ calls' = Append(calls, "probe_up")
             /\ UNCHANGED <<fail, exc, resets, file_position, fileSize>>
        ELSE IF l.raised
        THEN /\ pc' = "crashed"
             /\ fail' = "lost_connection"
             /\ exc' = "log_to_file"
             /\ calls' = calls \o lost \o <<"log_raised">>
             /\ UNCHANGED <<resets, file_position, fileSize>>
        ELSE IF ~ConnectFailed(reconnected)
        THEN /\ pc' = "send"
             /\ file_position' = l.g
             /\ fileSize' = [fileSize EXCEPT ![FlashLog] = l.size]
             /\ calls' = calls \o lost
                            \o <<IF reconnected THEN "reconnect_ok" ELSE "reconnect_failed">>
             /\ UNCHANGED <<fail, exc, resets>>
        ELSE /\ pc' = r.pc
             /\ fail' = "reconnect"
             /\ exc' = IF r.pc = "crashed" THEN "log_to_file" ELSE exc
             /\ resets' = resets + (IF r.pc = "reset" THEN 1 ELSE 0)
             /\ file_position' = r.g
             /\ fileSize' = [fileSize EXCEPT ![FlashLog] = r.size]
             /\ calls' = calls \o lost \o <<"reconnect_failed">>
                            \o ReportSteps(cfg.logfile, r.pc = "crashed")
    /\ UNCHANGED <<cfg, init_position, cycle, data, client, posts,
                   sleeps, slept, elapsed, sleep_called,
                   tx_failed, prev_failed, now>>
    /\ UNCHANGED <<modemVars, loggerRest>>

DataPost(msg, outcome) == [kind |-> "data", msg |-> msg, hash |-> NoHash, status |-> outcome]

\* self._ubirch.send(message_hash): the UPP over the hash, posted to the
\* anchoring service.
SealPost(hash, outcome) == [kind |-> "seal", msg |-> NoMessage, hash |-> hash, status |-> outcome]

\* UbirchDataClient.send, lines 133-136, up to the first requests.post of
\* send_msgpack / send_json: pack, hash, post.
ClientSendFirstPost ==
    /\ pc = "send"
    /\ \E outcome \in PostOutcomes :
        LET msg == MessageOf(data, now)
            hash == HashOf(msg, cfg.encoding) IN
        /\ posts' = Append(posts, DataPost(msg, outcome))
        /\ calls' = Append(calls, "post")
        /\ client' = [msg |-> msg, hash |-> hash,
                      wire |-> WireOf(msg, hash, cfg.encoding),
                      r |-> outcome, posted |-> 1]
        /\ pc' = IF Raised(outcome) THEN "send_raised" ELSE AfterFirstPost(cfg, outcome)
    /\ UNCHANGED <<cfg, file_position, init_position, cycle, data, fail, exc,
                   resets, sleeps, slept, elapsed, sleep_called,
                   tx_failed, prev_failed, now>>
    /\ UNCHANGED <<modemVars, loggerVars>>

\* send_json, lines 121-123: r.close() and the second requests.post.
ClientSendSecondPost ==
    /\ pc = "post2"
    /\ \E outcome \in PostOutcomes :
        /\ posts' = Append(posts, DataPost(client.msg, outcome))
        /\ calls' = Append(calls, "post")
        /\ client' = [client EXCEPT !.r = outcome, !.posted = 2]
        /\ pc' = IF Raised(outcome) THEN "send_raised" ELSE "status"
    /\ UNCHANGED <<cfg, file_position, init_position, cycle, data, fail, exc,
                   resets, sleeps, slept, elapsed, sleep_called,
                   tx_failed, prev_failed, now>>
    /\ UNCHANGED <<modemVars, loggerVars>>

\* UbirchDataClient.send, lines 138-146: on status 200 the seal is sent
\* (self._ubirch.send raises when that fails), otherwise the call raises.
ClientSendSeal ==
    /\ pc = "status"
    /\ IF DataAccepted(client.r)
       THEN \E outcome \in PostOutcomes :
                /\ posts' = Append(posts, SealPost(client.hash, outcome))
                /\ calls' = Append(calls, "post")
                /\ pc' = IF outcome = HTTP_OK THEN "cycle_end" ELSE "send_raised"
       ELSE /\ pc' = "send_raised"
            /\ UNCHANGED <<posts, calls>>
    /\ UNCHANGED <<cfg, file_position, init_position, cycle, data, client, fail, exc,
                   resets, sleeps, slept, elapsed, sleep_called,
                   tx_failed, prev_failed, now>>
    /\ UNCHANGED <<modemVars, loggerVars>>

\* Main.loop, lines 205-209: the handler of an exception raised by send().
LoopHandleSendError ==
    /\ pc = "send_raised"
    /\ \E trace \in 1..MaxTraceLen :
        LET h == HandleSendError(cfg.logfile, file_position, fileSize[FlashLog], trace) IN
        /\ pc' = h.pc
        /\ exc' = IF h.pc = "crashed" THEN "log_to_file" ELSE exc
        /\ file_position' = h.g
        /\ fileSize' = [fileSize EXCEPT ![FlashLog] = h.size]
        /\ calls' = calls \o HandlerSteps(cfg.logfile, h.pc = "crashed")
    /\ fail' = "transmission"
    /\ tx_failed' = TRUE
    /\ UNCHANGED <<cfg, init_position, cycle, data, client, posts, resets, sleeps,
                   slept, elapsed, sleep_called, prev_failed, now>>
    /\ UNCHANGED <<modemVars, loggerRest>>

\* Main.loop, lines 211-215: the time the cycle took and the interval sleep.
\* After the exception handler's sleep(3) at least ERROR_SLEEP seconds passed.
LoopEndCycle ==
    /\ pc = "cycle_end"
    /\ \E passed_time \in 0..MaxPassed :
        /\ tx_failed => passed_time >= ERROR_SLEEP
        /\ elapsed' = passed_time
        /\ sleep_called' = SleepRequested(cfg.interval, passed_time)
        /\ slept' = SleepSeconds(cfg.interval, passed_time)
        /\ calls' = IF SleepRequested(cfg.interval, passed_time)
                    THEN Append(calls, "sleep") ELSE calls
        /\ now' = now + passed_time + SleepSeconds(cfg.interval, passed_time)
    /\ sleeps' = sleeps + 1
    /\ pc' = "loop"
    /\ UNCHANGED <<cfg, file_position, init_position, cycle, data, client, posts,
                   fail, exc, resets, tx_failed, prev_failed>>
    /\ UNCHANGED <<modemVars, loggerVars>>

MainNext ==
    \/ MainGetConfig
    \/ MainOpenLogfile
    \/ MainWifiConnect
    \/ MainNbiotAttach
    \/ MainNbiotConnect
    \/ MainSetTime
    \/ MainNoNetwork
    \/ MainInitSensor
    \/ MainInitUbirch
    \/ LoopMeasure
    \/ LoopCheckConnection
    \/ ClientSendFirstPost
    \/ ClientSendSecondPost
    \/ ClientSendSeal
    \/ LoopHandleSendError
    \/ LoopEndCycle

(***************************************************************************)
(* Specifications                                                          *)
(***************************************************************************)
\* A caller of get_imsi; nothing else runs.
InitModem ==
    /\ at_pc = "idle"
    /\ at_sent = 0
    /\ at_raw = <<>>
    /\ at_result = <<>>
    /\ at_okseen = FALSE
    /\ at_late = FALSE
    /\ imsi_ret = NoValue
    /\ eh_pc = "unused"
    /\ eh = NoObject
    /\ fileSize = [f \in Files |-> 0]
    /\ eh_steps = <<>>
    /\ eh_call = NoCall
    /\ w_hist = NoWrite
    /\ eh_resets = 0
    /\ eh_budget = [logs |-> 0, boots |-> 0]
    /\ pc = "unused"
    /\ cfg = NoConfig
    /\ file_position = Undefined
    /\ init_position = Undefined
    /\ cycle = 0
    /\ data = NoData
    /\ client = NoClient
    /\ posts = <<>>
    /\ fail = "none"
    /\ exc = "none"
    /\ resets = 0
    /\ sleeps = 0
    /\ slept = 0
    /\ elapsed = 0
    /\ sleep_called = FALSE
    /\ calls = <<>>
    /\ tx_failed = FALSE
    /\ prev_failed = FALSE
    /\ now = 0

SpecModem == InitModem /\ [][ModemNext]_vars

\* A caller of ErrorHandler / FileLogger; nothing else runs.
InitLogger ==
    /\ at_pc = "unused"
    /\ at_sent = 0
    /\ at_raw = <<>>
    /\ at_result = <<>>
    /\ at_okseen = FALSE
    /\ at_late = FALSE
    /\ imsi_ret = NoValue
    /\ eh_pc = "boot"
    /\ eh = NoObject
    /\ fileSize \in [Files -> InitSizes]
    /\ eh_steps = <<>>
    /\ eh_call = NoCall
    /\ w_hist = NoWrite
    /\ eh_resets = 0
    /\ eh_budget = [logs |-> MaxLogs, boots |-> MaxBoots]
    /\ pc = "unused"
    /\ cfg = NoConfig
    /\ file_position = Undefined
    /\ init_position = Undefined
    /\ cycle = 0
    /\ data = NoData
    /\ client = NoClient
    /\ posts = <<>>
    /\ fail = "none"
    /\ exc = "none"
    /\ resets = 0
    /\ sleeps = 0
    /\ slept = 0
    /\ elapsed = 0
    /\ sleep_called = FALSE
    /\ calls = <<>>
    /\ tx_failed = FALSE
    /\ prev_failed = FALSE
    /\ now = 0

SpecLogger == InitLogger /\ [][LoggerNext]_vars

\* main.py: `main = Main()` then `main.loop()`, on a device whose log.txt has
\* any of the initial sizes. Nothing has assigned the global file_position.
Init ==
    /\ at_pc = "unused"
    /\ at_sent = 0
    /\ at_raw = <<>>
    /\ at_result = <<>>
    /\ at_okseen = FALSE
    /\ at_late = FALSE
    /\ imsi_ret = NoValue
    /\ eh_pc = "unused"
    /\ eh = NoObject
    /\ fileSize \in {[f \in Files |-> IF f = FlashLog THEN s ELSE 0] : s \in InitSizes}
    /\ eh_steps = <<>>
    /\ eh_call = NoCall
    /\ w_hist = NoWrite
    /\ eh_resets = 0
    /\ eh_budget = [logs |-> 0, boots |-> 0]
    /\ pc = "boot"
    /\ cfg = NoConfig
    /\ file_position = Undefined
    /\ init_position = Undefined
    /\ cycle = 0
    /\ data = NoData
    /\ client = NoClient
    /\ posts = <<>>
    /\ fail = "none"
    /\ exc = "none"
    /\ resets = 0
    /\ sleeps = 0
    /\ slept = 0
    /\ elapsed = 0
    /\ sleep_called = FALSE
    /\ calls = <<>>
    /\ tx_failed = FALSE
    /\ prev_failed = FALSE
    /\ now = 0

Next == MainNext

Spec == Init /\ [][Next]_vars

(***************************************************************************)
(* Claims                                                                  *)
(***************************************************************************)
Range(seq) == {seq[i] : i \in 1..Len(seq)}
DataPosts == SelectSeq(posts, LAMBDA p : p.kind = "data")
SealPosts == SelectSeq(posts, LAMBDA p : p.kind = "seal")

\* C1 (as claimed): for every stream of modem responses _send_at_cmd sends the
\* command at most 3 times, makes no attempt after an attempt that ended in
\* 'OK', never raises, and returns the lines of the last attempt (which ended
\* in 'OK', or was the third).
C1_TransportRetry ==
    /\ at_sent <= MAX_ATTEMPTS
    /\ ~at_late
    /\ at_pc # "at_raised"
    /\ at_pc = "at_returned" =>
          /\ at_result = ResponseLines(at_raw)
          /\ EndsOK(at_result) \/ at_sent = MAX_ATTEMPTS

\* C2 (as claimed): whatever the raw response, also one without any non-empty
\* line, _send_at_cmd raises nothing: an attempt whose response has no line
\* leaves the call in its loop or returned, with an empty list.
C2_TransportNeverRaises ==
    (at_sent > 0 /\ ResponseLines(at_raw) = <<>>) =>
        (at_pc \in {"loop", "at_returned"} /\ at_result = <<>>)

\* C3 (as claimed): a start-up failure of the configuration load, the ubirch
\* client initialisation or the network attach / connect / time-set is
\* followed by exactly one reset call and no interval sleep.
C3_FatalPath ==
    fail \in {"config", "ubirch_init", "attach", "connect", "settime"} =>
        (resets = 1 /\ sleeps = 0 /\ pc = "reset")

\* C4 (as claimed): when the log write of an ErrorHandler.log call raises,
\* the call still resets the device if reset was asked for, and returns
\* normally otherwise.
C4_LogFailureSwallowed ==
    (eh.via = "ErrorHandler" /\ eh_call.io \in {"open_fails", "write_fails"}) =>
        eh_pc = (IF eh_call.reset THEN "reset" ELSE "ready")

\* C5: for a logger started on a file no larger than its cap, every write is
\* performed where the previous write ended (where the file ended, for the
\* first), or at offset 0 when that position exceeds the cap; and the file
\* never grows beyond the cap plus one entry.
C5_LogWraparound ==
    (eh.enabled /\ w_hist.startSize <= eh.fl.MAX_FILE_SIZE) =>
        /\ w_hist.wrote =>
              w_hist.at = (IF w_hist.prevEnd > eh.fl.MAX_FILE_SIZE THEN 0 ELSE w_hist.prevEnd)
        /\ fileSize[eh.fl.logfile] <= eh.fl.MAX_FILE_SIZE + MaxEntryLen

\* C5's case: such a logger has written past its cap and the next write
\* was performed at offset 0.
C5_Witness ==
    /\ eh.enabled
    /\ w_hist.startSize <= eh.fl.MAX_FILE_SIZE
    /\ w_hist.wrote
    /\ w_hist.prevEnd > eh.fl.MAX_FILE_SIZE
    /\ w_hist.at = 0
    /\ fileSize[eh.fl.logfile] > eh.fl.MAX_FILE_SIZE

\* C6 (as claimed): a logger enabled through ErrorHandler has the default cap
\* of 20000 bytes: no write whose start position is at most 20000 is
\* redirected to offset 0.
C6_DefaultCap ==
    (eh.via = "ErrorHandler" /\ eh.enabled /\ w_hist.wrote
        /\ w_hist.prevEnd <= MAX_FILE_SIZE_DEFAULT) =>
            w_hist.at = w_hist.prevEnd

\* C7 (as claimed): once the transmission of a cycle has raised and the
\* handler has run, the device has not reset and the program is at the
\* interval sleep or at the start of the next cycle.
C7_DegradedContinues ==
    tx_failed => (resets = 0 /\ pc \in {"cycle_end", "loop"})

\* C8: every POST of a cycle carries the reading captured in that same cycle
\* (also after a failed cycle); all data POSTs of a cycle carry one message,
\* at most one seal is sent, and it is over the hash of that message.
C8_NoCarryOver ==
    /\ cycle > 0 => data.cycle = cycle
    /\ \A p \in Range(DataPosts) : p.msg.data = data /\ p.msg.data.cycle = cycle
    /\ \A p \in Range(DataPosts), q \in Range(DataPosts) : p.msg = q.msg
    /\ Len(SealPosts) <= 1
    /\ \A q \in Range(SealPosts) :
          \E p \in Range(DataPosts) :
              q.hash = HashOf(p.msg, cfg.encoding) /\ p.msg.data.cycle = cycle

\* C8's case: the previous cycle's transmission failed and this cycle's
\* message and seal have both been accepted.
C8_Witness ==
    /\ prev_failed
    /\ cycle = 2
    /\ Len(SealPosts) = 1
    /\ SealPosts[1].status = HTTP_OK
    /\ DataPosts[Len(DataPosts)].msg.data.cycle = 2

\* The call of send() is past its status check (line 138).
PastStatusCheck ==
    /\ Len(posts) > 0
    /\ pc \in {"send_raised", "cycle_end", "loop", "crashed"}

\* C9: a seal is sent only right after a data POST answered with 200, and
\* seals the hash of that POST's message; when the last data POST was
\* answered otherwise, no seal is sent and send() raises.
C9_SealGated ==
    /\ \A i \in 1..Len(posts) :
          posts[i].kind = "seal" =>
              /\ i > 1
              /\ posts[i - 1].kind = "data"
              /\ posts[i - 1].status = HTTP_OK
              /\ posts[i].hash = HashOf(posts[i - 1].msg, cfg.encoding)
    /\ (PastStatusCheck /\ DataPosts[Len(DataPosts)].status # HTTP_OK) =>
          /\ Len(SealPosts) = 0
          /\ pc = "send_raised" \/ tx_failed

\* C9's case: a binary message was accepted and its seal was sent.
C9_Witness ==
    /\ cfg.encoding = "msgpack"
    /\ Len(posts) = 2
    /\ posts[1].status = HTTP_OK
    /\ posts[2].kind = "seal"

\* The data POSTs of this send() are over: the call is at or past line 138.
DataPhaseDone == pc = "status" \/ PastStatusCheck

\* C10: for JSON, once the first data POST is answered (whatever the status)
\* a second one is issued with the same message, and the second response
\* alone decides whether the seal is sent; for msgpack there is exactly one
\* data POST and its response decides.
C10_PostCount ==
    /\ (cfg.encoding = "json" /\ DataPhaseDone /\ ~Raised(posts[1].status)) =>
          /\ Len(DataPosts) = 2
          /\ DataPosts[1].msg = DataPosts[2].msg
          /\ Len(SealPosts) > 0 => DataPosts[2].status = HTTP_OK
          /\ (PastStatusCheck /\ DataPosts[2].status = HTTP_OK) => Len(SealPosts) = 1
    /\ (cfg.encoding = "msgpack" /\ DataPhaseDone) =>
          /\ Len(DataPosts) = 1
          /\ Len(SealPosts) > 0 => DataPosts[1].status = HTTP_OK
          /\ (PastStatusCheck /\ DataPosts[1].status = HTTP_OK) => Len(SealPosts) = 1
    /\ (pc = "post2") => (cfg.encoding = "json" /\ Len(DataPosts) = 1)

\* C10's case: JSON, the first POST refused, the second accepted, seal sent.
C10_Witness ==
    /\ cfg.encoding = "json"
    /\ Len(DataPosts) = 2
    /\ DataPosts[1].status = HTTP_FAIL
    /\ DataPosts[2].status = HTTP_OK
    /\ Len(SealPosts) = 1

\* Positions in the trace of calls.
CallAt(c) == {i \in 1..Len(calls) : calls[i] = c}
Called(c) == CallAt(c) # {}
\* Every call of b has a call of a before it.
Precedes(a, b) == \A j \in CallAt(b) : \E i \in CallAt(a) : i < j

C12_SleepBudget ==
    /\ (sleeps > 0 /\ pc = "loop") =>
          /\ slept = Max(0, cfg.interval - elapsed)
          /\ slept >= 0
          /\ sleep_called <=> slept > 0
          /\ elapsed >= cfg.interval => ~sleep_called
    /\ SleepSeconds(60, 42) = 18
    /\ SleepSeconds(60, 75) = 0

\* C12's case: a cycle took longer than the interval and no sleep followed.
C12_Witness ==
    /\ sleeps > 0
    /\ pc = "loop"
    /\ elapsed > cfg.interval
    /\ ~sleep_called
    /\ slept = 0

\* The body of the last send() call, by encoding.
WireIsMsgpack == client.posted > 0 /\ cfg.encoding = "msgpack"
WireIsJson == client.posted > 0 /\ cfg.encoding = "json"
\* The bytes of the hash element at the end of a msgpack body.
HashSlot == PackItem(PyBytes(client.hash))
\* A msgpack body without its hash element.
WireBody == SubSeq(client.wire, 1, Len(client.wire) - Len(HashSlot))
\* A JSON body without its 'hash' entry.
WireMap == [k \in DOMAIN client.wire[2] \ {"hash"} |-> client.wire[2][k]]

\* C13: the body handed to requests.post consists of the device id, message
\* type 1, the timestamp and the cycle's reading, followed by the hash; the
\* hash recomputed over that body with the hash slot left out (the array
\* without its last element, the map without its 'hash' entry) is the hash
\* the body carries, and also the hash that is sealed; the placeholder is no
\* part of it.
C13_HashCommits ==
    /\ WireIsMsgpack =>
          /\ WireBody = <<<<"fixarray", 5>>>>
                            \o PackItem(PyBytes("uuid")) \o PackItem(PyInt(MSG_TYPE))
                            \o PackItem(PyInt(client.msg.timestamp))
                            \o PackItem(PyMap(data))
          /\ client.wire = WireBody \o HashSlot
          /\ Digest(WireBody) = client.hash
    /\ WireIsJson =>
          /\ WireMap = [uuid |-> "uuid", msg_type |-> MSG_TYPE,
                        timestamp |-> client.msg.timestamp, data |-> data]
          /\ client.wire[2].hash = B64(client.hash)
          /\ Digest(JsonDumps(WireMap)) = client.hash
    /\ \A q \in Range(SealPosts) : q.hash = client.hash

\* C13's case: a msgpack message was accepted and the hash it carries sealed.
C13_Witness ==
    /\ WireIsMsgpack
    /\ Len(client.wire) > Len(HashSlot)
    /\ Len(SealPosts) = 1
    /\ SealPosts[1].hash = client.hash

\* C14 (as claimed): whenever a cycle ends in its sleep, a disconnect of the
\* network medium was called in that cycle before the sleep.
C14_TeardownBeforeSleep == Precedes("disconnect", "sleep")

\* The blocking network calls of main.py.
NetworkCalls == {"connect", "attach", "settime", "register",
                 "reconnect_ok", "reconnect_failed", "post"}

\* C15 (as claimed): every blocking network call (connect, attach, time sync,
\* key registration, reconnect, POST) has a call arming the watchdog before it.
C15_WatchdogFirst ==
    \A c \in NetworkCalls : Precedes("wdt_arm", c)

\* The steps of a report the claim orders.
OrderedSteps == {"set_led", "print", "log", "sleep3", "reset"}

\* C16 (as claimed): an ErrorHandler.log call with reset=True performs, in
\* this order, set the indicator, print, the log write if file logging is
\* enabled, the grace delay and the reset; the reset is called exactly once
\* and is the last step.
C16_FatalOrder ==
    (eh.via = "ErrorHandler" /\ eh_steps # <<>> /\ eh_call.reset) =>
        /\ SelectSeq(eh_steps, LAMBDA st : st \in OrderedSteps)
              = <<"set_led", "print">>
                    \o (IF eh.enabled THEN <<"log">> ELSE <<>>)
                    \o <<"sleep3", "reset">>
        /\ eh_steps[Len(eh_steps)] = "reset"
        /\ eh_resets = 1
        /\ eh_pc = "reset"

\* C17 (as claimed): an ErrorHandler.log call with reset=False sets the
\* indicator, logs the error if file logging is enabled and returns, with no
\* delay step and no reset.
C17_DegradedNoDelay ==
    (eh.via = "ErrorHandler" /\ eh_steps # <<>> /\ ~eh_call.reset) =>
        /\ eh_steps = <<"set_led", "print">> \o (IF eh.enabled THEN <<"log">> ELSE <<>>)
        /\ eh_resets = 0
        /\ eh_pc = "ready"

\* C18 (as claimed): once main.py has opened the log file with file logging
\* enabled, the offset log_to_file reads is initialised, no log write fails
\* on it, and until the first log write it is the length the file had then.
C18_OffsetInitialised ==
    (cfg.logfile /\ pc \notin {"boot", "logfile"}) =>
        /\ file_position.defined
        /\ exc # "log_to_file"
        /\ pc \in {"connect", "nb_connect", "settime", "sensor", "ubirch"} =>
              file_position = init_position

\* C19: get_imsi returns exactly when the lines of the last response end in
\* 'OK' and the first of them has 15 characters, and then returns that first
\* line; otherwise it raises (also for a response that is only 'OK', for
\* one without OK after the third attempt, and for one without any line);
\* what it returns always has 15 characters, and the command is sent at most
\* 3 times.
C19_GetImsi ==
    LET lines == ResponseLines(at_raw)
        good == /\ lines # <<>>
                /\ lines[Len(lines)] = OK
                /\ Len(lines[1]) = 15 IN
    /\ at_sent <= 3
    /\ at_pc = "imsi_returned" => (good /\ imsi_ret = lines[1])
    /\ at_pc = "imsi_raised" => (~good /\ imsi_ret = NoValue)
    /\ at_pc = "at_returned" => (EndsOK(at_result) \/ at_sent = 3)
    /\ imsi_ret # NoValue => (Len(imsi_ret) = 15 /\ at_pc = "imsi_returned")

\* C19's case: the third attempt was answered with a 15-character line and
\* OK, and get_imsi returned that line.
C19_Witness ==
    /\ at_pc = "imsi_returned"
    /\ at_sent = 3
    /\ imsi_ret = Imsi15
====
